---- MODULE Spec2Model ----
(***************************************************************************)
(* bucketstats: statistics over binned histograms (pandas Series).         *)
(*                                                                         *)
(* The model covers the histogram validator, safe division, the free       *)
(* functions of probability.py and survival_analysis.py, and the           *)
(* DiscreteDistribution class with its cached properties.                  *)
(*                                                                         *)
(* Numbers.  A float is modelled by an exact extended rational <<n, d>>    *)
(* with d >= 0 in lowest terms; d = 0 encodes the IEEE specials:           *)
(* <<1,0>> = +inf, <<-1,0>> = -inf, <<0,0>> = NaN.  Rounding is not        *)
(* modelled: every statement below is about exact values.                  *)
(***************************************************************************)
EXTENDS Integers, Sequences, FiniteSets, TLC

VARIABLES hist, x_obs, fill, self, computed, outcome

vars == <<hist, x_obs, fill, self, computed, outcome>>

-----------------------------------------------------------------------------
(* Bounds of the model *)

\* longest generated histogram
MaxLen == 3
\* largest generated bin weight
MaxWeight == 2
\* generated index keys are 0..MaxKey
MaxKey == 1

-----------------------------------------------------------------------------
(* Extended rational arithmetic (float64 true division, exact) *)

Abs(n) == IF n < 0 THEN -n ELSE n

Sgn(n) == IF n < 0 THEN -1 ELSE IF n > 0 THEN 1 ELSE 0

RECURSIVE GCD(_, _)
GCD(a, b) == IF b = 0 THEN a ELSE GCD(b, a % b)

Norm(n, d) ==
    IF d = 0 THEN <<Sgn(n), 0>>
    ELSE LET s == IF d < 0 THEN -1 ELSE 1
             g == GCD(Abs(n), Abs(d))
         IN  <<(s * n) \div g, (s * d) \div g>>

R(n) == <<n, 1>>

NaN == <<0, 0>>
Inf == <<1, 0>>

IsNaN(a) == a = NaN
IsFinite(a) == a[2] # 0

RNeg(a) == <<-a[1], a[2]>>

\* a + b over the least common denominator (keeps the integers small)
RAdd(a, b) ==
    IF a[2] = 0 /\ b[2] = 0
    THEN (IF a = b THEN a ELSE NaN)
    ELSE IF a[2] = 0 THEN a
    ELSE IF b[2] = 0 THEN b
    ELSE LET g == GCD(a[2], b[2])
         IN  Norm(a[1] * (b[2] \div g) + b[1] * (a[2] \div g), (a[2] \div g) * b[2])

RSub(a, b) == RAdd(a, RNeg(b))

\* a * b, cancelling across the two fractions before multiplying
RMul(a, b) ==
    IF a[2] = 0 \/ b[2] = 0 THEN Norm(a[1] * b[1], 0)
    ELSE LET g == GCD(Abs(a[1]), b[2])
             h == GCD(Abs(b[1]), a[2])
         IN  Norm((a[1] \div g) * (b[1] \div h), (a[2] \div h) * (b[2] \div g))

\* a / b as numpy divides floats: x/0 is +-inf, 0/0 is NaN, no exception
RDiv(a, b) ==
    LET s == IF b[1] < 0 THEN -1 ELSE 1
    IN  IF a[2] = 0 \/ b[2] = 0 \/ b[1] = 0
        THEN Norm(a[1] * b[2] * s, a[2] * Abs(b[1]))
        ELSE RMul(a, <<s * b[2], Abs(b[1])>>)

\* IEEE comparisons: every comparison with NaN is false
REq(a, b) == ~IsNaN(a) /\ ~IsNaN(b) /\ a = b
RLt(a, b) ==
    /\ ~IsNaN(a) /\ ~IsNaN(b) /\ a # b
    /\ IF a[2] = 0 THEN a[1] < 0
       ELSE IF b[2] = 0 THEN b[1] > 0
       ELSE a[1] * b[2] < b[1] * a[2]
RLe(a, b) == REq(a, b) \/ RLt(a, b)

-----------------------------------------------------------------------------
(* Objects a caller can pass: a pandas Series, or something else *)

\* an Index: its dtype and its keys in position order (keys of an object
\* index stand for labels such as 'a', 'b', 'c')
Index(dtype, keys) == [dtype |-> dtype, keys |-> keys]

NoIndex == Index("none", <<>>)

Series(index, values) == [type |-> "Series", index |-> index, values |-> values]

\* a value that is not a Series: None, a str, a numpy array
Object(type, values) == [type |-> type, index |-> NoIndex, values |-> values]

None == Object("NoneType", <<>>)

Ret(v) == [kind |-> "return", value |-> v]

Raise(kind, msg) == [kind |-> kind, value |-> msg]

\* the values the assertion messages format
FmtType(h) == [repr |-> "type", type |-> h.type, index |-> NoIndex]
FmtIndex(h) == [repr |-> "index", type |-> "Index", index |-> h.index]

-----------------------------------------------------------------------------
(* pandas / numpy primitives the code calls *)

is_numeric(index) == index.dtype # "object"

is_monotonic_increasing(index) ==
    \A i \in 1..(Len(index.keys) - 1) : index.keys[i] <= index.keys[i + 1]

\* s[::-1]
Reversed(s) ==
    LET n == Len(s.values)
    IN  [s EXCEPT !.index.keys = [i \in 1..n |-> s.index.keys[n + 1 - i]],
                  !.values = [i \in 1..n |-> s.values[n + 1 - i]]]

\* left-to-right float accumulation of v[1..i] from a start value
RECURSIVE AccAdd(_, _)
AccAdd(v, i) == IF i = 0 THEN R(0) ELSE RAdd(AccAdd(v, i - 1), v[i])

RECURSIVE AccMul(_, _)
AccMul(v, i) == IF i = 0 THEN R(1) ELSE RMul(AccMul(v, i - 1), v[i])

MaskNaN(v, z) == [i \in 1..Len(v) |-> IF IsNaN(v[i]) THEN z ELSE v[i]]

\* np.cumsum(series) is Series.cumsum(skipna=True): NaN entries are replaced
\* by 0, accumulated, and put back as NaN
np_cumsum(s) ==
    LET w == MaskNaN(s.values, R(0))
    IN  [s EXCEPT !.values = [i \in 1..Len(w) |->
                     IF IsNaN(s.values[i]) THEN NaN ELSE AccAdd(w, i)]]

\* np.cumprod(series) is Series.cumprod(skipna=True)
np_cumprod(s) ==
    LET w == MaskNaN(s.values, R(1))
    IN  [s EXCEPT !.values = [i \in 1..Len(w) |->
                     IF IsNaN(s.values[i]) THEN NaN ELSE AccMul(w, i)]]

\* np.sum(series) / series.sum(): skips NaN
np_sum(s) == LET w == MaskNaN(s.values, R(0)) IN AccAdd(w, Len(w))

\* the builtin sum(series): plain accumulation over the values
builtin_sum(s) == AccAdd(s.values, Len(s.values))

\* elementwise arithmetic of a Series with a scalar
div_scalar(s, c) == [s EXCEPT !.values = [i \in 1..Len(s.values) |-> RDiv(s.values[i], c)]]
mul_scalar(c, s) == [s EXCEPT !.values = [i \in 1..Len(s.values) |-> RMul(c, s.values[i])]]
sub_scalar(s, c) == [s EXCEPT !.values = [i \in 1..Len(s.values) |-> RSub(s.values[i], c)]]
rsub_scalar(c, s) == [s EXCEPT !.values = [i \in 1..Len(s.values) |-> RSub(c, s.values[i])]]
square(s) == [s EXCEPT !.values = [i \in 1..Len(s.values) |-> RMul(s.values[i], s.values[i])]]

\* elementwise arithmetic of two operands of equal length, at least one a
\* Series; two Series here always carry equal indexes, so pandas pairs them
\* by position; the result is a new Series on the Series operand's index
binop_index(a, b) == IF a.type = "Series" THEN a.index ELSE b.index

truediv(a, b) ==
    Series(binop_index(a, b), [i \in 1..Len(a.values) |-> RDiv(a.values[i], b.values[i])])
sub(a, b) ==
    Series(binop_index(a, b), [i \in 1..Len(a.values) |-> RSub(a.values[i], b.values[i])])
mul(a, b) ==
    Series(binop_index(a, b), [i \in 1..Len(a.values) |-> RMul(a.values[i], b.values[i])])

\* result[mask] = fill, with mask = (denom == 0)
setitem_where_zero(result, denom, c) ==
    [result EXCEPT !.values = [i \in 1..Len(result.values) |->
        IF REq(denom.values[i], R(0)) THEN c ELSE result.values[i]]]

\* np.searchsorted(a, key, side): numpy's binary search, which assumes
\* nothing about a (on an unsorted a it still returns where the search ends)
RECURSIVE binsearch(_, _, _, _, _)
binsearch(a, key, side, lo, hi) ==
    IF lo >= hi THEN lo
    ELSE LET mid == lo + ((hi - lo) \div 2)
             goRight == IF side = "left" THEN RLt(a[mid + 1], key)
                        ELSE RLe(a[mid + 1], key)
         IN  IF goRight THEN binsearch(a, key, side, mid + 1, hi)
             ELSE binsearch(a, key, side, lo, mid)

searchsorted(s, key, side) == binsearch(s.values, key, side, 0, Len(s.values))

\* np.inner(a, b) over two value sequences
RECURSIVE np_inner(_, _, _)
np_inner(a, b, i) ==
    IF i = 0 THEN R(0) ELSE RAdd(np_inner(a, b, i - 1), RMul(a[i], b[i]))

-----------------------------------------------------------------------------
(* util.py *)

assert_valid_hist(h) ==
    IF h.type # "Series"
    THEN Raise("AssertionError", [expected |-> "pd.Series", got |-> FmtType(h)])
    ELSE IF ~is_numeric(h.index)
    THEN Raise("AssertionError", [expected |-> "numeric Index", got |-> FmtIndex(h)])
    ELSE IF ~is_monotonic_increasing(h.index)
    THEN Raise("AssertionError",
               [expected |-> "monotonic increasing Index", got |-> FmtIndex(h)])
    ELSE Ret(None)

\* a safe_divide that divides numer in place and returns it
safe_divide_inplace(numer, denom, c) ==
    LET result == truediv(numer, denom)
    IN  [numer |-> setitem_where_zero(result, denom, c), denom |-> denom,
         result |-> setitem_where_zero(result, denom, c)]

\* the objects after the call: numer and denom as the call leaves them, and
\* the Series it returns
safe_divide(numer, denom, c) ==
    LET result == truediv(numer, denom)
    IN  [numer |-> numer, denom |-> denom,
         result |-> setitem_where_zero(result, denom, c)]

-----------------------------------------------------------------------------
(* probability.py *)

rcumsum(h) ==
    LET ok == assert_valid_hist(h)
    IN  IF ok.kind # "return" THEN ok
        ELSE Ret(Reversed(np_cumsum(Reversed(h))))

pmf(h) ==
    LET ok == assert_valid_hist(h)
    IN  IF ok.kind # "return" THEN ok
        ELSE Ret(div_scalar(h, np_sum(h)))

\* a cmf accumulated from the tail
cmf_reversed(h) ==
    LET ok == assert_valid_hist(h)
        p == pmf(h)
    IN  IF ok.kind # "return" THEN ok
        ELSE IF p.kind # "return" THEN p
        ELSE Ret(Reversed(np_cumsum(Reversed(p.value))))

cmf(h) ==
    LET ok == assert_valid_hist(h)
        p == pmf(h)
    IN  IF ok.kind # "return" THEN ok
        ELSE IF p.kind # "return" THEN p
        ELSE Ret(np_cumsum(p.value))

rcmf(h) ==
    LET ok == assert_valid_hist(h)
        p == pmf(h)
    IN  IF ok.kind # "return" THEN ok
        ELSE IF p.kind # "return" THEN p
        ELSE rcumsum(p.value)

\* a median that never averages the two middle positions
median_of_left(cumsum_, sum_) ==
    R(searchsorted(sub_scalar(mul_scalar(R(2), cumsum_), sum_), R(0), "left"))

\* probability.py lines 136-144, and the same lines of DiscreteDistribution.median
median_of(cumsum_, sum_) ==
    LET tmp == sub_scalar(mul_scalar(R(2), cumsum_), sum_)
        idx_left == searchsorted(tmp, R(0), "left")
        idx_right == searchsorted(tmp, R(0), "right")
    IN  IF idx_left = idx_right THEN R(idx_left)
        ELSE RDiv(R(idx_left + idx_right), R(2))

median(h) ==
    LET ok == assert_valid_hist(h)
    IN  IF ok.kind # "return" THEN ok
        ELSE Ret(median_of(np_cumsum(h), builtin_sum(h)))

-----------------------------------------------------------------------------
(* survival_analysis.py *)

survival(x) == rcmf(x)

\* a risk set counted from the front instead of from the tail
_ni_forward(x) ==
    LET ok == assert_valid_hist(x)
    IN  IF ok.kind # "return" THEN ok ELSE Ret(np_cumsum(x))

_ni(x) == rcumsum(x)

_di(x, xo) == IF xo # None THEN xo ELSE x

\* the empirical survival function itself, not shifted by a bin
kaplan_meier_unshifted(x, xo) == rcmf(x)

kaplan_meier(x, xo) ==
    LET ni == _ni(x)
        di == _di(x, xo)
    IN  IF ni.kind # "return" THEN ni
        ELSE Ret(np_cumprod(rsub_scalar(R(1), safe_divide(di, ni.value, R(0)).result)))

\* Greenwood's sum scaled by the estimate instead of by its square
var_kaplan_meier_unsquared(x, xo) ==
    LET ni == _ni(x)
        di == _di(x, xo)
        km_est == kaplan_meier(x, xo)
        inner == safe_divide(di, mul(ni.value, sub(ni.value, di)), R(0)).result
        rc == rcumsum(inner)
    IN  IF ni.kind # "return" THEN ni
        ELSE IF km_est.kind # "return" THEN km_est
        ELSE IF rc.kind # "return" THEN rc
        ELSE Ret(mul(km_est.value, rc.value))

var_kaplan_meier(x, xo) ==
    LET ni == _ni(x)
        di == _di(x, xo)
        km_est == kaplan_meier(x, xo)
        inner == safe_divide(di, mul(ni.value, sub(ni.value, di)), R(0)).result
        rc == rcumsum(inner)
    IN  IF ni.kind # "return" THEN ni
        ELSE IF km_est.kind # "return" THEN km_est
        ELSE IF rc.kind # "return" THEN rc
        ELSE Ret(mul(square(km_est.value), rc.value))

\* a nelson_aalen that divides safely, as kaplan_meier does
nelson_aalen_safe(x, xo) ==
    LET ni == _ni(x)
        di == _di(x, xo)
    IN  IF ni.kind # "return" THEN ni
        ELSE rcumsum(safe_divide(di, ni.value, R(0)).result)

nelson_aalen(x, xo) ==
    LET ni == _ni(x)
        di == _di(x, xo)
    IN  IF ni.kind # "return" THEN ni
        ELSE rcumsum(truediv(di, ni.value))

var_nelson_aalen(x, xo) ==
    LET numer == var_kaplan_meier(x, xo)
        km == kaplan_meier(x, xo)
    IN  IF numer.kind # "return" THEN numer
        ELSE IF km.kind # "return" THEN km
        ELSE Ret(safe_divide(numer.value, square(km.value), R(0)).result)


-----------------------------------------------------------------------------
(* discrete_distribution.py *)

\* a validator that asks for strictly increasing keys
_assert_valid_hist_strict(h) ==
    IF h.type # "Series"
    THEN Raise("AssertionError", [expected |-> "pd.Series", got |-> FmtType(h)])
    ELSE IF ~is_numeric(h.index)
    THEN Raise("AssertionError", [expected |-> "numeric Index", got |-> FmtIndex(h)])
    ELSE IF \E i \in 1..(Len(h.index.keys) - 1) : h.index.keys[i] >= h.index.keys[i + 1]
    THEN Raise("AssertionError",
               [expected |-> "monotonic increasing Index", got |-> FmtIndex(h)])
    ELSE Ret(None)

_assert_valid_hist(h) ==
    IF h.type # "Series"
    THEN Raise("AssertionError", [expected |-> "pd.Series", got |-> FmtType(h)])
    ELSE IF ~is_numeric(h.index)
    THEN Raise("AssertionError", [expected |-> "numeric Index", got |-> FmtIndex(h)])
    ELSE IF ~is_monotonic_increasing(h.index)
    THEN Raise("AssertionError",
               [expected |-> "monotonic increasing Index", got |-> FmtIndex(h)])
    ELSE Ret(None)

_safe_divide(numer, denom, c) ==
    LET result == truediv(numer, denom)
    IN  [numer |-> numer, denom |-> denom,
         result |-> setitem_where_zero(result, denom, c)]

\* An instance: the histogram it references and its __dict__, where
\* cached_property stores each value under the property's name.
EmptyDict == [k \in {} |-> None]

Instance(h, d) == [_hist |-> h, dict |-> d]

NoInstance == Instance(None, EmptyDict)

Properties ==
    {"index", "values", "support", "sum", "cumsum", "rcumsum", "cmf", "rcmf",
     "pmf", "mean", "median", "modes", "mode", "variance", "std_dev", "entropy"}

\* a property getter runs on [obj, n] (the instance, and how many times each
\* property's body has produced a value) and yields [st, res]
Got(st, res) == [st |-> st, res |-> res]

\* a decorator that runs the body on every access and stores nothing
cached_property_recompute(st, name, r) ==
    IF r.res.kind # "return" THEN r
    ELSE Got([obj |-> r.st.obj, n |-> [r.st.n EXCEPT ![name] = @ + 1]], r.res)

\* cached_property.__get__: the stored value if there is one; else what the
\* body yields, r, stored when it is a value (nothing is stored when it raises)
cached_property(st, name, r) ==
    IF name \in DOMAIN st.obj.dict
    THEN Got(st, Ret(st.obj.dict[name]))
    ELSE IF r.res.kind # "return" THEN r
    ELSE Got([obj |-> [r.st.obj EXCEPT !.dict = (name :> r.res.value) @@ @],
              n |-> [r.st.n EXCEPT ![name] = @ + 1]],
             r.res)

\* DiscreteDistribution(hist): the new instance (NoInstance when __init__
\* raises) and the outcome
DiscreteDistribution(h) ==
    LET ok == _assert_valid_hist(h)
    IN  IF ok.kind # "return" THEN [obj |-> NoInstance, res |-> ok]
        ELSE [obj |-> Instance(h, EmptyDict), res |-> Ret(None)]

toseries(obj) == Ret(obj._hist)

index_body(st) == Got(st, Ret(st.obj._hist.index))
DD_index(st) == cached_property(st, "index", index_body(st))

values_body(st) == Got(st, Ret(st.obj._hist.values))
DD_values(st) == cached_property(st, "values", values_body(st))

\* index[mask]: the keys at the positions where mask holds
RECURSIVE boolean_index(_, _, _)
boolean_index(keys, mask, i) ==
    IF i = 0 THEN <<>>
    ELSE IF mask[i] THEN Append(boolean_index(keys, mask, i - 1), keys[i])
    ELSE boolean_index(keys, mask, i - 1)

support_body(st) ==
    LET a == DD_index(st)
        b == DD_values(a.st)
        v == b.res.value
        mask == [i \in 1..Len(v) |-> RLt(R(0), v[i])]
    IN  Got(b.st, Ret(Index(a.res.value.dtype,
                            boolean_index(a.res.value.keys, mask, Len(v)))))
DD_support(st) == cached_property(st, "support", support_body(st))

sum_body(st) == Got(st, Ret(np_sum(st.obj._hist)))
DD_sum(st) == cached_property(st, "sum", sum_body(st))

cumsum_body(st) == Got(st, Ret(np_cumsum(st.obj._hist)))
DD_cumsum(st) == cached_property(st, "cumsum", cumsum_body(st))

rcumsum_body(st) == Got(st, Ret(Reversed(np_cumsum(Reversed(st.obj._hist)))))
DD_rcumsum(st) == cached_property(st, "rcumsum", rcumsum_body(st))

cmf_body(st) ==
    LET a == DD_cumsum(st)
        b == DD_sum(a.st)
    IN  Got(b.st, Ret(div_scalar(a.res.value, b.res.value)))
DD_cmf(st) == cached_property(st, "cmf", cmf_body(st))

rcmf_body(st) ==
    LET a == DD_rcumsum(st)
        b == DD_sum(a.st)
    IN  Got(b.st, Ret(div_scalar(a.res.value, b.res.value)))
DD_rcmf(st) == cached_property(st, "rcmf", rcmf_body(st))

pmf_body(st) ==
    LET b == DD_sum(st)
    IN  Got(b.st, Ret(div_scalar(st.obj._hist, b.res.value)))
DD_pmf(st) == cached_property(st, "pmf", pmf_body(st))

KeysAsFloats(keys) == [i \in 1..Len(keys) |-> R(keys[i])]

mean_body(st) ==
    LET a == DD_index(st)
        b == DD_pmf(a.st)
        k == a.res.value.keys
    IN  Got(b.st, Ret(np_inner(KeysAsFloats(k), b.res.value.values, Len(k))))
DD_mean(st) == cached_property(st, "mean", mean_body(st))

median_body(st) ==
    LET a == DD_cumsum(st)
        b == DD_sum(a.st)
    IN  Got(b.st, Ret(median_of(a.res.value, b.res.value)))
DD_median(st) == cached_property(st, "median", median_body(st))

\* the builtin max(values): the first element no later one exceeds
RECURSIVE builtin_max(_, _)
builtin_max(v, i) ==
    IF i = 1 THEN v[1]
    ELSE LET m == builtin_max(v, i - 1) IN IF RLt(m, v[i]) THEN v[i] ELSE m

modes_body(st) ==
    LET a == DD_values(st)
        v == a.res.value
        highest_frequency == builtin_max(v, Len(v))
        b == DD_index(a.st)
        c == DD_values(b.st)
        mask == [i \in 1..Len(v) |-> REq(v[i], highest_frequency)]
    IN  IF Len(v) = 0
        THEN Got(a.st, Raise("ValueError", [expected |-> "non-empty sequence",
                                            got |-> FmtType(Object("ndarray", v))]))
        ELSE Got(c.st, Ret(boolean_index(b.res.value.keys, mask, Len(v))))
DD_modes(st) == cached_property(st, "modes", modes_body(st))

\* a mode that skips the unimodality assertion
mode_body_unchecked(st) ==
    LET a == DD_modes(st)
    IN  IF a.res.kind # "return" THEN a ELSE Got(a.st, Ret(a.res.value[1]))

mode_body(st) ==
    LET a == DD_modes(st)
    IN  IF a.res.kind # "return" THEN a
        ELSE IF Len(a.res.value) # 1
        THEN Got(a.st, Raise("AssertionError",
                             [expected |-> "unimodal", got |-> a.res.value]))
        ELSE Got(a.st, Ret(a.res.value[1]))
DD_mode(st) == cached_property(st, "mode", mode_body(st))

\* np.inner(self.pmf, np.pow(np.index, 2)) - self.mean**2: self.pmf is
\* evaluated, then the argument np.pow(np.index, 2) fails on the attribute
\* lookup (numpy has no attribute index; before numpy 2.0 none named pow)
variance_body(st) ==
    LET a == DD_pmf(st)
    IN  Got(a.st, Raise("AttributeError",
                        [module |-> "numpy", no_attribute |-> {"pow", "index"}]))
DD_variance(st) == cached_property(st, "variance", variance_body(st))

std_dev_body(st) ==
    LET a == DD_variance(st)
    IN  IF a.res.kind # "return" THEN a
        ELSE Got(a.st, Ret([sqrt_of |-> a.res.value]))
DD_std_dev(st) == cached_property(st, "std_dev", std_dev_body(st))

\* -sum(p * log2(p)) is kept symbolic: the float it yields is determined by
\* the masses it is taken over
entropy_body(st) ==
    LET a == DD_pmf(st)
    IN  Got(a.st, Ret([shannon_entropy_of |-> a.res.value.values]))
DD_entropy(st) == cached_property(st, "entropy", entropy_body(st))


-----------------------------------------------------------------------------
(* What a caller can pass *)

RangeIndex(n) == Index("int64", [i \in 1..n |-> i - 1])

Counts(w) == [i \in 1..Len(w) |-> R(w[i])]

\* generated bin weights: counts up to MaxWeight, and one negative weight
\* (the validator looks at the index only)
Weights == {-1} \cup (0..MaxWeight)

\* indexes the validator accepts: range(n), and every non-decreasing key
\* sequence over 0..MaxKey (ties included)
ValidIndexes(n) ==
    {RangeIndex(n)} \cup
    {Index("int64", k) : k \in {q \in [1..n -> 0..MaxKey] :
                                  \A i \in 1..(n - 1) : q[i] <= q[i + 1]}}

\* indexes it rejects: labels that are not numbers, and keys out of order
InvalidIndexes(n) ==
    {Index("object", [i \in 1..n |-> i - 1])} \cup
    {Index("int64", k) : k \in {q \in [1..n -> 0..MaxKey] :
                                  \E i \in 1..(n - 1) : q[i] > q[i + 1]}}

\* the histograms of the doctests
Examples ==
    {Series(RangeIndex(Len(w)), Counts(w)) :
        w \in {<<1, 1, 1>>, <<9, 1>>, <<1, 1, 1, 1, 1, 1>>, <<3, 4, 3, 4>>,
               <<1, 1, 1, 4>>, <<1, 1, 1, 1, 1>>, <<10, 10>>}}

ValidHists ==
    Examples \cup
    UNION {{Series(ix, Counts(w)) : ix \in ValidIndexes(n), w \in [1..n -> Weights]} :
           n \in 0..MaxLen}

InvalidHists ==
    {Object("str", <<>>)} \cup
    UNION {{Series(ix, Counts([i \in 1..n |-> 1])) : ix \in InvalidIndexes(n)} :
           n \in 1..MaxLen}

Hists == ValidHists \cup InvalidHists

NoOutcome == [op |-> "none", kind |-> "none", value |-> None]

Outcome(op, res) == [op |-> op, kind |-> res.kind, value |-> res.value]

NoCounts == [p \in Properties |-> 0]

-----------------------------------------------------------------------------
(* The life of one DiscreteDistribution: construction, then any sequence of *)
(* property accesses and toseries() calls                                   *)

\* the histograms whose whole life is explored: doctest cases, and an empty,
\* an all-zero, a negative-weight, a tied-key and an offset-key histogram,
\* and one input for each way the validator rejects
LifeHists ==
    {Series(RangeIndex(Len(w)), Counts(w)) :
        w \in {<<>>, <<0, 0>>, <<2, -1>>, <<3, 4, 3, 4>>, <<1, 1, 1, 4>>}} \cup
    {Series(Index("int64", <<0, 0, 1>>), Counts(<<1, 2, 0>>)),
     Series(Index("int64", <<4, 5, 6>>), Counts(<<1, 1, 1>>)),
     Object("str", <<>>),
     Series(Index("object", <<0, 1, 2>>), Counts(<<1, 2, 3>>)),
     Series(Index("int64", <<4, 6, 5>>), Counts(<<1, 2, 3>>))}

Init ==
    /\ hist \in LifeHists
    /\ x_obs = None
    /\ fill = R(0)
    /\ self = NoInstance
    /\ computed = NoCounts
    /\ outcome = NoOutcome

Construct ==
    /\ self = NoInstance
    /\ LET r == DiscreteDistribution(hist)
       IN  /\ self' = r.obj
           /\ outcome' = Outcome("__init__", r.res)
    /\ UNCHANGED <<hist, x_obs, fill, computed>>

ToSeries ==
    /\ self # NoInstance
    /\ outcome' = Outcome("toseries", toseries(self))
    /\ UNCHANGED <<hist, x_obs, fill, self, computed>>

\* the instance as the getters take it
Here == [obj |-> self, n |-> computed]

\* reading property p of the instance, r being what its getter yields
Access(p, r) ==
    /\ self # NoInstance
    /\ self' = r.st.obj
    /\ computed' = r.st.n
    /\ outcome' = Outcome(p, r.res)
    /\ UNCHANGED <<hist, x_obs, fill>>

GetIndex == Access("index", DD_index(Here))
GetValues == Access("values", DD_values(Here))
GetSupport == Access("support", DD_support(Here))
GetSum == Access("sum", DD_sum(Here))
GetCumsum == Access("cumsum", DD_cumsum(Here))
GetRcumsum == Access("rcumsum", DD_rcumsum(Here))
GetCmf == Access("cmf", DD_cmf(Here))
GetRcmf == Access("rcmf", DD_rcmf(Here))
GetPmf == Access("pmf", DD_pmf(Here))
GetMean == Access("mean", DD_mean(Here))
GetMedian == Access("median", DD_median(Here))
GetModes == Access("modes", DD_modes(Here))
GetMode == Access("mode", DD_mode(Here))
GetVariance == Access("variance", DD_variance(Here))
GetStdDev == Access("std_dev", DD_std_dev(Here))
GetEntropy == Access("entropy", DD_entropy(Here))

Next ==
    \/ Construct
    \/ ToSeries
    \/ GetIndex
    \/ GetValues
    \/ GetSupport
    \/ GetSum
    \/ GetCumsum
    \/ GetRcumsum
    \/ GetCmf
    \/ GetRcmf
    \/ GetPmf
    \/ GetMean
    \/ GetMedian
    \/ GetModes
    \/ GetMode
    \/ GetVariance
    \/ GetStdDev
    \/ GetEntropy

Spec == Init /\ [][Next]_vars


-----------------------------------------------------------------------------
(* One call of a public entry point on arguments the caller supplies *)

\* fill values passed to safe_divide
Fills == {R(0), R(1)}

\* second arguments for a histogram x: none; a Series on x's index holding,
\* per bin, no or one observed event; for a non-empty x, an array of ones
\* that is not a Series
ObsFor(x) ==
    LET n == Len(x.values)
    IN  {None} \cup
        {Object("ndarray", Counts([i \in 1..n |-> 1])) : k \in 1..(IF n > 0 THEN 1 ELSE 0)} \cup
        {Series(x.index, Counts(v)) : v \in [1..n -> {0, 1}]}

\* the survival estimators never read the keys: their pairs are generated
\* over range(n) indexes, and over the rejected inputs
PairHists == {h \in Hists : h \in InvalidHists \/ h.index = RangeIndex(Len(h.values))}

InitFn ==
    /\ \/ hist \in Hists /\ x_obs = None
       \/ hist \in PairHists /\ x_obs \in ObsFor(hist)
    /\ fill = R(0)
    /\ self = NoInstance
    /\ computed = NoCounts
    /\ outcome = NoOutcome

\* f(hist), for the functions of one argument
Call1(op, res) ==
    /\ outcome = NoOutcome
    /\ x_obs = None
    /\ outcome' = Outcome(op, res)
    /\ UNCHANGED <<hist, x_obs, fill, self, computed>>

\* f(hist, x_obs), for the estimators
Call2(op, res) ==
    /\ outcome = NoOutcome
    /\ outcome' = Outcome(op, res)
    /\ UNCHANGED <<hist, x_obs, fill, self, computed>>

\* DiscreteDistribution(hist).p: construction, then a first access
Fresh == [obj |-> DiscreteDistribution(hist).obj, n |-> computed]

NewAccess(p, r) ==
    /\ outcome = NoOutcome
    /\ x_obs = None
    /\ LET d == DiscreteDistribution(hist)
       IN  IF d.res.kind # "return"
           THEN /\ outcome' = Outcome("__init__", d.res)
                /\ UNCHANGED <<self, computed>>
           ELSE /\ self' = r.st.obj
                /\ computed' = r.st.n
                /\ outcome' = Outcome(p, r.res)
    /\ UNCHANGED <<hist, x_obs, fill>>

\* f(x_obs, hist, c): a quotient of two Series, guarded against zero
CallSafeDivide(op, c, r) ==
    /\ outcome = NoOutcome
    /\ hist.type = "Series"
    /\ x_obs.type = "Series"
    /\ fill' = c
    /\ x_obs' = r.numer
    /\ hist' = r.denom
    /\ outcome' = Outcome(op, Ret(r.result))
    /\ UNCHANGED <<self, computed>>

FnConstruct ==
    /\ outcome = NoOutcome
    /\ x_obs = None
    /\ LET r == DiscreteDistribution(hist)
       IN  /\ self' = r.obj
           /\ outcome' = Outcome("__init__", r.res)
    /\ UNCHANGED <<hist, x_obs, fill, computed>>

FnRcumsum == Call1("rcumsum", rcumsum(hist))
FnPmf == Call1("pmf", pmf(hist))
FnCmf == Call1("cmf", cmf(hist))
FnRcmf == Call1("rcmf", rcmf(hist))
FnMedian == Call1("median", median(hist))
FnSurvival == Call1("survival", survival(hist))
FnKaplanMeier == Call2("kaplan_meier", kaplan_meier(hist, x_obs))
FnVarKaplanMeier == Call2("var_kaplan_meier", var_kaplan_meier(hist, x_obs))
FnNelsonAalen == Call2("nelson_aalen", nelson_aalen(hist, x_obs))
FnVarNelsonAalen == Call2("var_nelson_aalen", var_nelson_aalen(hist, x_obs))
FnSafeDivide ==
    \E c \in Fills : CallSafeDivide("safe_divide", c, safe_divide(x_obs, hist, c))
FnSafeDivideDD ==
    \E c \in Fills : CallSafeDivide("_safe_divide", c, _safe_divide(x_obs, hist, c))
NewCmf == NewAccess("DiscreteDistribution.cmf", DD_cmf(Fresh))
NewMean == NewAccess("DiscreteDistribution.mean", DD_mean(Fresh))
NewMedian == NewAccess("DiscreteDistribution.median", DD_median(Fresh))
NewModes == NewAccess("DiscreteDistribution.modes", DD_modes(Fresh))
NewMode == NewAccess("DiscreteDistribution.mode", DD_mode(Fresh))
NewVariance == NewAccess("DiscreteDistribution.variance", DD_variance(Fresh))

NextFn ==
    \/ FnConstruct
    \/ FnRcumsum
    \/ FnPmf
    \/ FnCmf
    \/ FnRcmf
    \/ FnMedian
    \/ FnSurvival
    \/ FnKaplanMeier
    \/ FnVarKaplanMeier
    \/ FnNelsonAalen
    \/ FnVarNelsonAalen
    \/ FnSafeDivide
    \/ FnSafeDivideDD
    \/ NewCmf
    \/ NewMean
    \/ NewMedian
    \/ NewModes
    \/ NewMode
    \/ NewVariance

SpecFn == InitFn /\ [][NextFn]_vars


-----------------------------------------------------------------------------
(* Vocabulary of the properties below, stated on plain integers *)

\* the weight of bin i of h (histograms passed by callers hold integers)
W(h, i) == h.values[i][1]

N(h) == Len(h.values)

RECURSIVE SumW(_, _, _)
SumW(h, lo, hi) == IF lo > hi THEN 0 ELSE W(h, lo) + SumW(h, lo + 1, hi)

Total(h) == SumW(h, 1, N(h))

NonDecreasingKeys(h) ==
    \A i, j \in 1..Len(h.index.keys) : i < j => h.index.keys[i] <= h.index.keys[j]

\* conditions (a), (b), (c) of the validation contract
IsSeries(h) == h.type = "Series"
HasNumericIndex(h) == h.index.dtype = "int64"
Accepted(h) == IsSeries(h) /\ HasNumericIndex(h) /\ NonDecreasingKeys(h)

NonNegative(h) == \A i \in 1..N(h) : W(h, i) >= 0

Ones(n) == Counts([i \in 1..n |-> 1])

Example(w) == Series(RangeIndex(Len(w)), Counts(w))

-----------------------------------------------------------------------------
\* C1: DiscreteDistribution(hist) succeeds iff hist is a Series (a) whose
\* index is numeric (b) and non-decreasing, ties allowed (c); otherwise it
\* fails with a validation error that tells which condition failed, checked in
\* the order a, b, c, and names the offending value (the type for a, the index
\* for b and c), and no instance holding hist exists.
C1_ConstructionContract ==
    outcome.op = "__init__" =>
       /\ outcome.kind = "return" <=> Accepted(hist)
       /\ outcome.kind = "return" => self = Instance(hist, EmptyDict)
       /\ outcome.kind # "return" =>
             /\ outcome.kind = "AssertionError"
             /\ self = NoInstance
             /\ ~IsSeries(hist) =>
                   /\ outcome.value.expected = "pd.Series"
                   /\ outcome.value.got = [repr |-> "type", type |-> hist.type,
                                           index |-> NoIndex]
             /\ IsSeries(hist) /\ ~HasNumericIndex(hist) =>
                   /\ outcome.value.expected = "numeric Index"
                   /\ outcome.value.got.index = hist.index
             /\ IsSeries(hist) /\ HasNumericIndex(hist) =>
                   /\ outcome.value.expected = "monotonic increasing Index"
                   /\ outcome.value.got.index = hist.index

\* a Series with tied keys was accepted and is held by the new instance
C1_Witness ==
    /\ outcome.op = "__init__"
    /\ outcome.kind = "return"
    /\ self._hist = hist
    /\ \E i \in 1..(N(hist) - 1) : hist.index.keys[i] = hist.index.keys[i + 1]

-----------------------------------------------------------------------------
\* first position (from 0) whose doubled cumulative weight reaches / exceeds
\* the total
FirstAtLeastHalf(h) ==
    CHOOSE i \in 0..(N(h) - 1) :
        /\ 2 * SumW(h, 1, i + 1) >= Total(h)
        /\ \A j \in 0..(i - 1) : 2 * SumW(h, 1, j + 1) < Total(h)

FirstAboveHalf(h) ==
    CHOOSE i \in 0..(N(h) - 1) :
        /\ 2 * SumW(h, 1, i + 1) > Total(h)
        /\ \A j \in 0..(i - 1) : 2 * SumW(h, 1, j + 1) <= Total(h)

\* the multiset in which position i - 1 occurs W(h, i) times, in order
RECURSIVE Multiset(_, _)
Multiset(h, i) ==
    IF i = 0 THEN <<>>
    ELSE Multiset(h, i - 1) \o [k \in 1..W(h, i) |-> i - 1]

\* average of the lower and upper middle elements of a sorted sequence
MiddleAverage(m) ==
    Norm(m[(Len(m) + 1) \div 2] + m[(Len(m) \div 2) + 1], 2)

MedianCase(h) ==
    /\ Accepted(h)
    /\ h.index = RangeIndex(N(h))
    /\ NonNegative(h)
    /\ Total(h) > 0

\* C2: over support 0..n-1 with non-negative integer weights of positive
\* total, median (the free function and DiscreteDistribution.median) returns
\* L when L = R and (L + R) / 2 otherwise, L and R being the first positions
\* with 2*cumsum - sum >= 0 and > 0; that is the average of the two middle
\* elements of the multiset of positions.  The doctest cases give 1, 0, 5/2
\* and 3/2.
C2_WeightedMedian ==
    (outcome.op \in {"median", "DiscreteDistribution.median"} /\ MedianCase(hist)) =>
       LET L == FirstAtLeastHalf(hist)
           U == FirstAboveHalf(hist)
       IN  /\ outcome.kind = "return"
           /\ outcome.value = (IF L = U THEN <<L, 1>> ELSE Norm(L + U, 2))
           /\ outcome.value = MiddleAverage(Multiset(hist, N(hist)))
           /\ hist = Example(<<1, 1, 1>>) => outcome.value = <<1, 1>>
           /\ hist = Example(<<9, 1>>) => outcome.value = <<0, 1>>
           /\ hist = Example(<<1, 1, 1, 1, 1, 1>>) => outcome.value = <<5, 2>>
           /\ hist = Example(<<3, 4, 3, 4>>) => outcome.value = <<3, 2>>

\* an even total split between two positions that are not neighbours
C2_Witness ==
    /\ outcome.op = "DiscreteDistribution.median"
    /\ MedianCase(hist)
    /\ FirstAboveHalf(hist) > FirstAtLeastHalf(hist) + 1
    /\ outcome.value = <<1, 1>>

-----------------------------------------------------------------------------
MaxWeightOf(h) == CHOOSE m \in {W(h, i) : i \in 1..N(h)} : \A i \in 1..N(h) : W(h, i) <= m

ModePositions(h) == {i \in 1..N(h) : W(h, i) = MaxWeightOf(h)}

\* the keys of the heaviest bins, in position order
ExpectedModes(h) ==
    LET P == ModePositions(h)
    IN  [j \in 1..Cardinality(P) |->
            h.index.keys[CHOOSE q \in P : Cardinality({r \in P : r < q}) = j - 1]]

\* C3: for a valid non-empty histogram, modes lists every support point whose
\* weight is the maximum, in increasing support order; mode returns the one
\* element of modes when there is exactly one, and otherwise fails with a
\* multimodal error that lists all the modes and returns nothing.
C3_ModesAndMode ==
    (Accepted(hist) /\ N(hist) > 0) =>
       /\ outcome.op = "DiscreteDistribution.modes" =>
             /\ outcome.kind = "return"
             /\ outcome.value = ExpectedModes(hist)
             /\ \A i, j \in 1..Len(outcome.value) :
                   i < j => outcome.value[i] <= outcome.value[j]
             /\ hist = Example(<<1, 1, 1, 4>>) => outcome.value = <<3>>
             /\ hist = Example(<<3, 4, 3, 4>>) => outcome.value = <<1, 3>>
       /\ outcome.op = "DiscreteDistribution.mode" =>
             IF Cardinality(ModePositions(hist)) = 1
             THEN /\ outcome.kind = "return"
                  /\ outcome.value = ExpectedModes(hist)[1]
                  /\ hist = Example(<<1, 1, 1, 4>>) => outcome.value = 3
             ELSE /\ outcome.kind = "AssertionError"
                  /\ outcome.value.expected = "unimodal"
                  /\ outcome.value.got = ExpectedModes(hist)
                  /\ "mode" \notin DOMAIN self.dict

\* mode was asked of the bimodal doctest histogram and failed, naming 1 and 3
C3_Witness ==
    /\ outcome.op = "DiscreteDistribution.mode"
    /\ hist = Example(<<3, 4, 3, 4>>)
    /\ outcome.kind = "AssertionError"
    /\ outcome.value.got = <<1, 3>>


-----------------------------------------------------------------------------
\* size of the risk set at bin i: the weight of x at or beyond i
RiskSet(x, i) == SumW(x, i, N(x))

\* observed events at bin i
Events(x, xo, i) == IF xo = None THEN W(x, i) ELSE W(xo, i)

\* product over the bins j <= i with a non-empty risk set of
\* (ni[j] - di[j]) / ni[j]: numerator and denominator
RECURSIVE SurvivorsProduct(_, _, _)
SurvivorsProduct(x, xo, i) ==
    IF i = 0 THEN 1
    ELSE (IF RiskSet(x, i) = 0 THEN 1 ELSE RiskSet(x, i) - Events(x, xo, i))
         * SurvivorsProduct(x, xo, i - 1)

RECURSIVE RiskProduct(_, _)
RiskProduct(x, i) ==
    IF i = 0 THEN 1
    ELSE (IF RiskSet(x, i) = 0 THEN 1 ELSE RiskSet(x, i)) * RiskProduct(x, i - 1)

\* C4: kaplan_meier(x, x_obs) is, at each bin i, the product over the bins
\* j <= i of 1 - di[j]/ni[j], with ni[j] the weight of x at or beyond j and di
\* = x_obs (x when absent); a bin with ni = 0 contributes the factor 1, so the
\* output there repeats the previous bin's (1 at the first bin).  For
\* x = [1,1,1,1,1] uncensored it is [4/5, 3/5, 2/5, 1/5, 0].
C4_KaplanMeier ==
    (outcome.op = "kaplan_meier" /\ Accepted(hist)) =>
       /\ outcome.kind = "return"
       /\ outcome.value.index = hist.index
       /\ Len(outcome.value.values) = N(hist)
       /\ \A i \in 1..N(hist) :
             /\ outcome.value.values[i] =
                   Norm(SurvivorsProduct(hist, x_obs, i), RiskProduct(hist, i))
             /\ RiskSet(hist, i) = 0 =>
                   outcome.value.values[i] =
                      (IF i = 1 THEN <<1, 1>> ELSE outcome.value.values[i - 1])
       /\ (hist = Example(<<1, 1, 1, 1, 1>>) /\ x_obs = None) =>
             outcome.value.values = <<<<4, 5>>, <<3, 5>>, <<2, 5>>, <<1, 5>>, <<0, 1>>>>

\* an event is recorded at a bin whose risk set is empty, after a bin that
\* left survivors: the curve stays where it was
C4_Witness ==
    /\ outcome.op = "kaplan_meier"
    /\ outcome.kind = "return"
    /\ x_obs.type = "Series"
    /\ \E i \in 2..N(hist) :
          /\ RiskSet(hist, i) = 0
          /\ W(x_obs, i) = 1
          /\ outcome.value.values[i] = <<1, 2>>

-----------------------------------------------------------------------------
\* C5: safe_divide(numer, denom, fill) returns a sequence of the same length
\* holding fill where denom is exactly zero and numer/denom elsewhere, and
\* leaves numer and denom as they were; safe_divide([1,1,1],[0,1,2],0) is
\* [0, 1, 1/2].  (The call passes x_obs as numer and hist as denom.)
C5_SafeDivide ==
    [][ (outcome.op = "none" /\ outcome'.op \in {"safe_divide", "_safe_divide"}) =>
           /\ x_obs' = x_obs
           /\ hist' = hist
           /\ outcome'.kind = "return"
           /\ Len(outcome'.value.values) = N(hist)
           /\ \A i \in 1..N(hist) :
                 outcome'.value.values[i] =
                    (IF W(hist, i) = 0 THEN fill' ELSE Norm(W(x_obs, i), W(hist, i)))
           /\ (x_obs = Example(<<1, 1, 1>>) /\ hist = Example(<<0, 1, 2>>)
                  /\ fill' = <<0, 1>>) =>
                 outcome'.value.values = <<<<0, 1>>, <<1, 1>>, <<1, 2>>>>
      ]_vars

\* the doctest call has returned [0, 1, 1/2] with its arguments intact
C5_Witness ==
    /\ outcome.op = "safe_divide"
    /\ x_obs = Example(<<1, 1, 1>>)
    /\ hist = Example(<<0, 1, 2>>)
    /\ fill = <<0, 1>>
    /\ outcome.value.values = <<<<0, 1>>, <<1, 1>>, <<1, 2>>>>

-----------------------------------------------------------------------------
\* sum over the bins of key^power * weight
RECURSIVE Moment(_, _, _)
Moment(h, power, i) ==
    IF i = 0 THEN 0
    ELSE (IF power = 1 THEN h.index.keys[i] ELSE h.index.keys[i] * h.index.keys[i])
         * W(h, i) + Moment(h, power, i - 1)

\* sum(index^2 * pmf) - mean^2, over the common denominator Total^2
ExpectedVariance(h) ==
    Norm(Moment(h, 2, N(h)) * Total(h) - Moment(h, 1, N(h)) * Moment(h, 1, N(h)),
         Total(h) * Total(h))

\* C6: for a valid histogram of positive total weight,
\* DiscreteDistribution.variance returns sum(index^2 * pmf) - mean^2 (1/4 for
\* weights [10, 10] over [0, 1]) and raises nothing.
C6_Variance ==
    (outcome.op = "DiscreteDistribution.variance" /\ Accepted(hist) /\ Total(hist) > 0) =>
       /\ outcome.kind = "return"
       /\ outcome.value = ExpectedVariance(hist)
       /\ hist = Example(<<10, 10>>) => outcome.value = <<1, 4>>

-----------------------------------------------------------------------------
FreeFunctions ==
    {"rcumsum", "pmf", "cmf", "rcmf", "median", "survival", "kaplan_meier",
     "var_kaplan_meier", "nelson_aalen", "var_nelson_aalen"}

\* C7: each public free function rejects with a validation error, and returns
\* no result for, a histogram argument (x, or x_obs when supplied) that is not
\* a Series or whose index is not numeric or not monotonic.
C7_EveryArgumentValidated ==
    (outcome.op \in FreeFunctions /\ (~Accepted(hist) \/ (x_obs # None /\ ~Accepted(x_obs)))) =>
       outcome.kind = "AssertionError"


-----------------------------------------------------------------------------
\* what property p yields on an instance that has cached nothing
Getter(p, st) ==
    CASE p = "index" -> DD_index(st)
      [] p = "values" -> DD_values(st)
      [] p = "support" -> DD_support(st)
      [] p = "sum" -> DD_sum(st)
      [] p = "cumsum" -> DD_cumsum(st)
      [] p = "rcumsum" -> DD_rcumsum(st)
      [] p = "cmf" -> DD_cmf(st)
      [] p = "rcmf" -> DD_rcmf(st)
      [] p = "pmf" -> DD_pmf(st)
      [] p = "mean" -> DD_mean(st)
      [] p = "median" -> DD_median(st)
      [] p = "modes" -> DD_modes(st)
      [] p = "mode" -> DD_mode(st)
      [] p = "variance" -> DD_variance(st)
      [] p = "std_dev" -> DD_std_dev(st)
      [] p = "entropy" -> DD_entropy(st)

FromScratch(p, h) == Getter(p, [obj |-> Instance(h, EmptyDict), n |-> NoCounts]).res

\* C8: after construction, whatever properties are read and however often,
\* and whenever toseries() is called: the wrapped histogram is the one given
\* at construction (hist keeps that value), each property's body has produced
\* a value at most once, every cached value is what the property yields from
\* scratch on the wrapped histogram, and every value an access returns is the
\* cached one, so a repeated access returns the identical value.
C8_ImmutableAndMemoized ==
    self # NoInstance =>
       /\ self._hist = hist
       /\ DOMAIN self.dict \subseteq Properties
       /\ \A p \in Properties :
             IF p \in DOMAIN self.dict
             THEN /\ computed[p] = 1
                  /\ FromScratch(p, hist).kind = "return"
                  /\ self.dict[p] = FromScratch(p, hist).value
             ELSE computed[p] = 0
       /\ (outcome.op \in Properties /\ outcome.kind = "return") =>
             /\ outcome.op \in DOMAIN self.dict
             /\ outcome.value = self.dict[outcome.op]
       /\ outcome.op = "toseries" => (outcome.kind = "return" /\ outcome.value = hist)

\* sum has been read again after cmf, rcmf, pmf and median each needed it:
\* its body ran once
C8_Witness ==
    /\ self # NoInstance
    /\ outcome.op = "sum"
    /\ {"cmf", "rcmf", "pmf", "median", "mean"} \subseteq DOMAIN self.dict
    /\ computed["sum"] = 1
    /\ Total(hist) = 14

-----------------------------------------------------------------------------
\* the returned cumulative mass function never steps down and ends at 1
NonDecreasingEndingAtOne(v) ==
    /\ \A i \in 1..(Len(v) - 1) : RLe(v[i], v[i + 1])
    /\ Len(v) > 0
    /\ v[Len(v)] = <<1, 1>>

CmfOps == {"cmf", "DiscreteDistribution.cmf"}

\* C9 as stated: for every histogram the validator accepts whose total
\* weight is positive, cmf (the free function and DiscreteDistribution.cmf)
\* is non-decreasing along the support and its last entry is 1.
C9_CmfMonotoneForAccepted ==
    (outcome.op \in CmfOps /\ Accepted(hist) /\ Total(hist) > 0) =>
       /\ outcome.kind = "return"
       /\ NonDecreasingEndingAtOne(outcome.value.values)

\* C9 amended: the same, for accepted histograms whose weights are all
\* non-negative (with any weights of positive total the last entry is still 1).
C9_CmfMonotoneForCounts ==
    (outcome.op \in CmfOps /\ Accepted(hist) /\ Total(hist) > 0) =>
       /\ outcome.kind = "return"
       /\ outcome.value.index = hist.index
       /\ Len(outcome.value.values) = N(hist)
       /\ outcome.value.values[N(hist)] = <<1, 1>>
       /\ NonNegative(hist) => NonDecreasingEndingAtOne(outcome.value.values)

\* the free cmf of three counts with an empty bin: it rises, stays, rises to 1
C9_Witness ==
    /\ outcome.op = "cmf"
    /\ hist = Example(<<1, 0, 2>>)
    /\ outcome.value.values = <<<<1, 3>>, <<1, 3>>, <<1, 1>>>>

-----------------------------------------------------------------------------
NelsonAalenCase == outcome.op = "nelson_aalen" /\ Accepted(hist)

\* the bin-local hazard di[i] / ni[i], divided as floats are: no guard
Hazard(x, xo, i) == Norm(Events(x, xo, i), RiskSet(x, i))

\* float sum of the hazards of bins i..N(x), accumulated from the tail
RECURSIVE TailHazard(_, _, _)
TailHazard(x, xo, i) ==
    IF i > N(x) THEN <<0, 1>>
    ELSE RAdd(TailHazard(x, xo, i + 1), Hazard(x, xo, i))

\* the same sum with the NaN hazards left out
RECURSIVE TailHazardSkippingNaN(_, _, _)
TailHazardSkippingNaN(x, xo, i) ==
    IF i > N(x) THEN <<0, 1>>
    ELSE IF Hazard(x, xo, i) = NaN THEN TailHazardSkippingNaN(x, xo, i + 1)
    ELSE RAdd(TailHazardSkippingNaN(x, xo, i + 1), Hazard(x, xo, i))

\* C10 as stated: nelson_aalen(x, x_obs) is at each bin i the sum over the
\* bins j >= i of di[j]/ni[j], the division unguarded, so that what a zero
\* risk set produces (infinity, NaN) is what the sum carries.
C10_SumOfUnguardedHazards ==
    NelsonAalenCase =>
       /\ outcome.kind = "return"
       /\ \A i \in 1..N(hist) : outcome.value.values[i] = TailHazard(hist, x_obs, i)

\* C10 amended: at each bin i the result is NaN when di[i]/ni[i] is NaN
\* (0/0), and otherwise the sum over the bins j >= i of the di[j]/ni[j] that
\* are not NaN (the cumulative sum skips NaN terms instead of carrying them to
\* the earlier bins); no fill value is substituted, so at every bin whose risk
\* set is zero the result is NaN or infinite.  [1,1,1,1,1] gives
\* [137/60, 25/12, 11/6, 3/2, 1].
C10_SumSkippingNaN ==
    NelsonAalenCase =>
       /\ outcome.kind = "return"
       /\ outcome.value.index = hist.index
       /\ Len(outcome.value.values) = N(hist)
       /\ \A i \in 1..N(hist) :
             /\ outcome.value.values[i] =
                   (IF Hazard(hist, x_obs, i) = NaN THEN NaN
                    ELSE TailHazardSkippingNaN(hist, x_obs, i))
             /\ RiskSet(hist, i) = 0 => outcome.value.values[i][2] = 0
       /\ (hist = Example(<<1, 1, 1, 1, 1>>) /\ x_obs = None) =>
             outcome.value.values =
                <<<<137, 60>>, <<25, 12>>, <<11, 6>>, <<3, 2>>, <<1, 1>>>>

\* the last bin has an empty risk set and yields NaN, which the bins before
\* it do not inherit
C10_Witness ==
    /\ outcome.op = "nelson_aalen"
    /\ hist = Example(<<1, 1, 0>>)
    /\ x_obs = None
    /\ outcome.value.values = <<<<3, 2>>, <<1, 1>>, NaN>>


-----------------------------------------------------------------------------
\* the Kaplan-Meier estimate at bin i, as C4 establishes it
KM(x, xo, i) == Norm(SurvivorsProduct(x, xo, i), RiskProduct(x, i))

\* Greenwood's term at bin j: di / (ni * (ni - di)), 0 where that product is 0
Greenwood(x, xo, j) ==
    LET d == RiskSet(x, j) * (RiskSet(x, j) - Events(x, xo, j))
    IN  IF d = 0 THEN <<0, 1>> ELSE Norm(Events(x, xo, j), d)

\* sum of Greenwood's terms over the bins j >= i
RECURSIVE TailGreenwood(_, _, _)
TailGreenwood(x, xo, i) ==
    IF i > N(x) THEN <<0, 1>>
    ELSE RAdd(TailGreenwood(x, xo, i + 1), Greenwood(x, xo, i))

KMSquared(x, xo, i) == RMul(KM(x, xo, i), KM(x, xo, i))

VarKM(x, xo, i) == RMul(KMSquared(x, xo, i), TailGreenwood(x, xo, i))

\* C11: for an accepted x, var_kaplan_meier(x, x_obs) is at each bin i
\* km[i]^2 times the sum over the bins j >= i of g[j], with km the
\* Kaplan-Meier estimate and g[j] = di[j] / (ni[j] * (ni[j] - di[j])), taken
\* as 0 where ni[j] * (ni[j] - di[j]) is 0; var_nelson_aalen(x, x_obs) is that
\* value divided by km[i]^2, and 0 where km[i]^2 is 0.  For [1,1,1,1,1] they
\* are [64/125, 27/100, 8/75, 1/50, 0] and [4/5, 3/4, 2/3, 1/2, 0].
C11_GreenwoodVariances ==
    /\ (outcome.op = "var_kaplan_meier" /\ Accepted(hist)) =>
          /\ outcome.kind = "return"
          /\ outcome.value.index = hist.index
          /\ Len(outcome.value.values) = N(hist)
          /\ \A i \in 1..N(hist) : outcome.value.values[i] = VarKM(hist, x_obs, i)
          /\ (hist = Example(<<1, 1, 1, 1, 1>>) /\ x_obs = None) =>
                outcome.value.values =
                   <<<<64, 125>>, <<27, 100>>, <<8, 75>>, <<1, 50>>, <<0, 1>>>>
    /\ (outcome.op = "var_nelson_aalen" /\ Accepted(hist)) =>
          /\ outcome.kind = "return"
          /\ outcome.value.index = hist.index
          /\ Len(outcome.value.values) = N(hist)
          /\ \A i \in 1..N(hist) :
                outcome.value.values[i] =
                   (IF KMSquared(hist, x_obs, i) = <<0, 1>> THEN <<0, 1>>
                    ELSE RDiv(VarKM(hist, x_obs, i), KMSquared(hist, x_obs, i)))
          /\ (hist = Example(<<1, 1, 1, 1, 1>>) /\ x_obs = None) =>
                outcome.value.values =
                   <<<<4, 5>>, <<3, 4>>, <<2, 3>>, <<1, 2>>, <<0, 1>>>>

\* var_kaplan_meier with censoring: no event is observed at the second bin,
\* and the last bin, where ni = di, takes the guarded term 0
C11_Witness ==
    /\ outcome.op = "var_kaplan_meier"
    /\ hist = Example(<<1, 1, 1>>)
    /\ x_obs = Series(hist.index, Counts(<<1, 0, 1>>))
    /\ Greenwood(hist, x_obs, 3) = <<0, 1>>
    /\ outcome.value.values = <<<<2, 27>>, <<0, 1>>, <<0, 1>>>>

-----------------------------------------------------------------------------
Uncensored(op) ==
    /\ outcome.op = op
    /\ x_obs = None
    /\ Accepted(hist)
    /\ NonNegative(hist)
    /\ Total(hist) > 0

\* C12: without x_obs, for an accepted histogram of non-negative integer
\* weights with a positive total, kaplan_meier(x)[i] is the weight beyond bin
\* i over the total weight, which is 1 - cmf(x)[i] and rcmf(x)[i] - pmf(x)[i]
\* (as exact values; the floating-point results agree up to rounding); it
\* never rises from a bin to the next and lies within [0, 1].
C12_KaplanMeierIsShiftedSurvival ==
    Uncensored("kaplan_meier") =>
       /\ outcome.kind = "return"
       /\ Len(outcome.value.values) = N(hist)
       /\ \A i \in 1..N(hist) :
             /\ outcome.value.values[i] = Norm(SumW(hist, i + 1, N(hist)), Total(hist))
             /\ outcome.value.values[i] = RSub(<<1, 1>>, cmf(hist).value.values[i])
             /\ outcome.value.values[i] =
                   RSub(rcmf(hist).value.values[i], pmf(hist).value.values[i])
             /\ RLe(<<0, 1>>, outcome.value.values[i])
             /\ RLe(outcome.value.values[i], <<1, 1>>)
       /\ \A i \in 1..(N(hist) - 1) :
             RLe(outcome.value.values[i + 1], outcome.value.values[i])

\* a histogram whose last bin is empty: the risk set there is 0, and the
\* curve has already reached 0
C12_Witness ==
    /\ Uncensored("kaplan_meier")
    /\ hist = Example(<<1, 1, 0>>)
    /\ outcome.value.values = <<<<1, 2>>, <<0, 1>>, <<0, 1>>>>


====
